---- MODULE Spec2Model ----
(***************************************************************************)
(* Model of the UART driver of src/UARTImplementation.cpp: the lifecycle   *)
(* state machine (configure / open / close), the mutex and condition       *)
(* variable shared by the API calls, the blocking read, and the detached   *)
(* receive threads asyncRead / dmaRead started by open.                    *)
(*                                                                         *)
(* The source leaves the hardware interaction as TODO; the one step that   *)
(* stands for it (HardwareReceive, a producer appending a byte and raising *)
(* dataReady under the lock) is modelled from spec.md sections 4.3 and 5.  *)
(* A producer may also run exactly as the source is written: no append,    *)
(* only the notify.                                                        *)
(***************************************************************************)
EXTENDS Integers, Sequences, FiniteSets, TLC

\* ---------------------------------------------------------------- bounds
MaxBytes == 3        \* bytes the hardware delivers in one behaviour
MaxReadLen == 2      \* largest `length` passed to read
MaxWriteLen == 1     \* largest `length` passed to write
MaxProducers == 2    \* detached receive threads alive at the same time

\* ------------------------------------------------------- program constants
DefaultBaudRate == 9600
DefaultDataBits == 8
DefaultStopBits == 1
MainBaudRate == 115200

Threads == {"t1", "t2"}
NoThread == "none"

UARTState == {"CLOSED", "OPEN", "CONFIGURED"}
CommMethod == {"POLLING", "INTERRUPT", "DMA"}
UARTConfig == {"BAUD_RATE", "DATA_BITS", "PARITY", "STOP_BITS"}
\* an int cast to UARTConfig that names no enumerator (the switch's default)
ConfigArgs == UARTConfig \cup {"UNKNOWN"}
Values == {0, 1}
\* the four configure calls of main()
MainConfig == {<<"BAUD_RATE", MainBaudRate>>, <<"DATA_BITS", DefaultDataBits>>,
               <<"PARITY", 0>>, <<"STOP_BITS", DefaultStopBits>>}
Ops == {"configure", "open", "close", "read", "write"}

\* what() of the exceptions thrown by the API
Errors == {"None", "InvalidState", "InvalidArgument", "AlreadyOpen",
           "NotConfigured", "NotOpen"}

VARIABLES
    state, baudRate, dataBits, parity, stopBits, commMethod,
    mtx, dataReady, readBuffer,
    pc, rdLen, ret,
    prod, destroyed,
    rxCount, consumed

config == <<baudRate, dataBits, parity, stopBits>>
vars == <<state, baudRate, dataBits, parity, stopBits, commMethod,
          mtx, dataReady, readBuffer, pc, rdLen, ret, prod, destroyed,
          rxCount, consumed>>

Min(a, b) == IF a < b THEN a ELSE b

\* ret: how the call that returned last ended (who called what, the exception
\* thrown or "None", the int returned, the bytes copied to the caller's
\* buffer); forgotten when the next call begins
NoRet == [who |-> NoThread, op |-> "none", err |-> "None", n |-> 0, bytes |-> <<>>]
Result(t, op, err, n, bytes) ==
    [who |-> t, op |-> op, err |-> err, n |-> n, bytes |-> bytes]

\* The detached receive threads.  asyncRead and dmaRead have the same body,
\* and threads at the same place are interchangeable: prod[p] is the number
\* of live receive threads whose position is p.
ProdPcs == {"test", "hw", "notify"}
LiveProducers == prod["test"] + prod["hw"] + prod["notify"]
Move(from, to) == [prod EXCEPT ![from] = @ - 1, ![to] = @ + 1]

\* the bytes appended so far: the k-th byte delivered by the hardware is k
appended == [k \in 1..rxCount |-> k]

\* ------------------------------------------------------------------ Init
Init ==
    /\ state = "CLOSED"
    /\ baudRate = DefaultBaudRate
    /\ dataBits = DefaultDataBits
    /\ parity = FALSE
    /\ stopBits = DefaultStopBits
    /\ commMethod \in CommMethod      \* not initialised by the constructor
    /\ mtx = NoThread
    /\ dataReady = FALSE
    /\ readBuffer = <<>>
    /\ pc = [t \in Threads |-> "idle"]
    /\ rdLen = [t \in Threads |-> 0]
    /\ ret = NoRet
    /\ prod = [p \in ProdPcs |-> 0]
    /\ destroyed = FALSE
    /\ rxCount = 0
    /\ consumed = <<>>

\* ------------------------------------------------------------ API: locking
\* a caller enters an API function and takes the mutex
Lock(t, op) ==
    /\ ~destroyed
    /\ pc[t] = "idle"
    /\ mtx = NoThread
    /\ mtx' = t
    /\ pc' = [pc EXCEPT ![t] = op]
    /\ ret' = NoRet
    /\ UNCHANGED <<state, baudRate, dataBits, parity, stopBits, commMethod,
                   dataReady, readBuffer, rdLen, prod, destroyed,
                   rxCount, consumed>>

\* leaving the function: the lock object is destroyed, the result is recorded
Return(t, r) ==
    /\ mtx' = NoThread
    /\ pc' = [pc EXCEPT ![t] = "idle"]
    /\ ret' = r

\* -------------------------------------------------------------- configure
\* the exception configure throws, "None" when it runs to its end:
\*   runtime_error("UART must be closed before configuration.")  InvalidState
\*   invalid_argument("Invalid UART configuration.")             InvalidArgument
\* (variant: the state test left out)
ConfigureErrorNoStateTest(st, cfg) ==
    IF cfg \notin UARTConfig THEN "InvalidArgument" ELSE "None"

ConfigureError(st, cfg) ==
    IF st # "CLOSED" THEN "InvalidState"
    ELSE IF cfg \notin UARTConfig THEN "InvalidArgument"
    ELSE "None"

\* the switch: the case of `field` assigns when config names it, and breaks
\* (variant: no break after the BAUD_RATE case, which falls into DATA_BITS)
SetFieldFallThrough(cfg, field, value, old) ==
    IF cfg = field \/ (cfg = "BAUD_RATE" /\ field = "DATA_BITS")
    THEN value ELSE old

SetField(cfg, field, value, old) == IF cfg = field THEN value ELSE old

configure(t, cfg, value) ==
    /\ pc[t] = "configure"
    /\ mtx = t
    /\ IF ConfigureError(state, cfg) # "None"
       THEN /\ Return(t, Result(t, "configure", ConfigureError(state, cfg), 0, <<>>))
            /\ UNCHANGED <<state, baudRate, dataBits, parity, stopBits>>
       ELSE /\ baudRate' = SetField(cfg, "BAUD_RATE", value, baudRate)
            /\ dataBits' = SetField(cfg, "DATA_BITS", value, dataBits)
            /\ parity' = SetField(cfg, "PARITY", value # 0, parity)
            /\ stopBits' = SetField(cfg, "STOP_BITS", value, stopBits)
            /\ state' = "CONFIGURED"
            /\ Return(t, Result(t, "configure", "None", 0, <<>>))
    /\ UNCHANGED <<commMethod, dataReady, readBuffer, rdLen, prod, destroyed,
                   rxCount, consumed>>

\* ------------------------------------------------------------------- open
\* std::thread(&UART::asyncRead / &UART::dmaRead, this).detach()
Spawn(method) ==
    IF method = "INTERRUPT"
    THEN prod' = [prod EXCEPT !["test"] = @ + 1]
    ELSE IF method = "DMA"
    THEN prod' = [prod EXCEPT !["test"] = @ + 1]
    ELSE UNCHANGED prod

\* the exception open throws, "None" when it runs to its end:
\*   runtime_error("UART is already open.")                    AlreadyOpen
\*   runtime_error("UART must be configured before opening.")  NotConfigured
\* (variant: the already-open test left out)
OpenErrorOneTest(st) == IF st # "CONFIGURED" THEN "NotConfigured" ELSE "None"

\* (variant: the configured test left out)
OpenErrorNoConfiguredTest(st) == IF st = "OPEN" THEN "AlreadyOpen" ELSE "None"

OpenError(st) ==
    IF st = "OPEN" THEN "AlreadyOpen"
    ELSE IF st # "CONFIGURED" THEN "NotConfigured"
    ELSE "None"

open(t, method) ==
    /\ pc[t] = "open"
    /\ mtx = t
    /\ IF OpenError(state) # "None"
       THEN /\ Return(t, Result(t, "open", OpenError(state), 0, <<>>))
            /\ UNCHANGED <<state, commMethod, prod>>
       ELSE /\ state' = "OPEN"
            /\ commMethod' = method
            /\ Spawn(method)
            /\ Return(t, Result(t, "open", "None", 0, <<>>))
    /\ UNCHANGED <<baudRate, dataBits, parity, stopBits, dataReady, readBuffer,
                   rdLen, destroyed, rxCount, consumed>>

\* ------------------------------------------------------------------ close
\* the test that opens close, read and write:
\*   if (state != OPEN) throw runtime_error("UART is not open.")   NotOpen
\* (variant: only CLOSED is rejected)
NotOpenErrorClosedOnly(st) == IF st = "CLOSED" THEN "NotOpen" ELSE "None"

NotOpenError(st) == IF st # "OPEN" THEN "NotOpen" ELSE "None"

\* the state close leaves (variant: back to CONFIGURED)
ClosedStateConfigured == "CONFIGURED"

ClosedState == "CLOSED"

close(t) ==
    /\ pc[t] = "close"
    /\ mtx = t
    /\ IF NotOpenError(state) # "None"
       THEN /\ Return(t, Result(t, "close", NotOpenError(state), 0, <<>>))
            /\ UNCHANGED state
       ELSE /\ state' = ClosedState
            /\ Return(t, Result(t, "close", "None", 0, <<>>))
    /\ UNCHANGED <<baudRate, dataBits, parity, stopBits, commMethod, dataReady,
                   readBuffer, rdLen, prod, destroyed, rxCount, consumed>>

\* ------------------------------------------------------------------- read
\* int bytesRead = std::min(length, static_cast<int>(readBuffer.size()))
\* (variant: the whole buffer, whatever length is)
BytesReadAll(buf, length) == Len(buf)

BytesRead(buf, length) == Min(length, Len(buf))
\* std::copy(readBuffer.begin(), readBuffer.begin() + bytesRead, buffer)
Copied(buf, length) == SubSeq(buf, 1, BytesRead(buf, length))
\* readBuffer.erase(readBuffer.begin(), readBuffer.begin() + bytesRead)
\* (variant: nothing erased)
ErasedNothing(buf, length) == buf

Erased(buf, length) == SubSeq(buf, BytesRead(buf, length) + 1, Len(buf))

\* one evaluation of cv.wait(lock, [this]{ return dataReady; }) with the lock
\* held: the predicate holds and the read drains, or the thread suspends
\* the predicate of the wait: [this] { return dataReady; }
\* (variant: cv.wait(lock) with no predicate, any wake-up passes)
WaitPredicateNone == TRUE

WaitPredicate == dataReady

\* the owner of the mutex while the thread is suspended in cv.wait: nobody
\* (variant: the mutex is kept while suspended)
WaitKeepsLock(t) == t

WaitRelease(t) == NoThread

WaitOrDrain(t, length) ==
    IF WaitPredicate
    THEN /\ readBuffer' = Erased(readBuffer, length)
         /\ dataReady' = FALSE
         /\ consumed' = consumed \o Copied(readBuffer, length)
         /\ rdLen' = [rdLen EXCEPT ![t] = 0]
         /\ Return(t, Result(t, "read", "None", BytesRead(readBuffer, length),
                             Copied(readBuffer, length)))
    ELSE /\ mtx' = WaitRelease(t)
         /\ pc' = [pc EXCEPT ![t] = "waiting"]
         /\ rdLen' = [rdLen EXCEPT ![t] = length]
         /\ UNCHANGED <<readBuffer, dataReady, consumed, ret>>

read(t, length) ==
    /\ pc[t] = "read"
    /\ mtx = t
    /\ IF NotOpenError(state) # "None"
       THEN /\ Return(t, Result(t, "read", NotOpenError(state), 0, <<>>))
            /\ UNCHANGED <<readBuffer, dataReady, consumed, rdLen>>
       ELSE WaitOrDrain(t, length)
    /\ UNCHANGED <<state, baudRate, dataBits, parity, stopBits, commMethod,
                   prod, destroyed, rxCount>>

\* a suspended reader resumes without a notification
SpuriousWake(t) ==
    /\ pc[t] = "waiting"
    /\ pc' = [pc EXCEPT ![t] = "woken"]
    /\ UNCHANGED <<state, baudRate, dataBits, parity, stopBits, commMethod,
                   mtx, dataReady, readBuffer, rdLen, ret, prod, destroyed,
                   rxCount, consumed>>

\* a resumed reader takes the mutex again before the predicate is evaluated
Reacquire(t) ==
    /\ pc[t] = "woken"
    /\ mtx = NoThread
    /\ mtx' = t
    /\ pc' = [pc EXCEPT ![t] = "recheck"]
    /\ UNCHANGED <<state, baudRate, dataBits, parity, stopBits, commMethod,
                   dataReady, readBuffer, rdLen, ret, prod, destroyed,
                   rxCount, consumed>>

\* the predicate is evaluated again; state is not looked at again
Recheck(t) ==
    /\ pc[t] = "recheck"
    /\ mtx = t
    /\ WaitOrDrain(t, rdLen[t])
    /\ UNCHANGED <<state, baudRate, dataBits, parity, stopBits, commMethod,
                   prod, destroyed, rxCount>>

\* ------------------------------------------------------------------ write
\* After the state test the function body is a TODO and flows off its end
\* without a return statement: the int the caller receives is indeterminate.
WriteReturn(length) == (0 - 1)..(length + 1)

write(t, length) ==
    /\ pc[t] = "write"
    /\ mtx = t
    /\ IF NotOpenError(state) # "None"
       THEN Return(t, Result(t, "write", NotOpenError(state), 0, <<>>))
       ELSE \E n \in WriteReturn(length) :
                Return(t, Result(t, "write", "None", n, <<>>))
    /\ UNCHANGED <<state, baudRate, dataBits, parity, stopBits, commMethod,
                   dataReady, readBuffer, rdLen, prod, destroyed,
                   rxCount, consumed>>

\* ------------------------------------------------------------- destructor
\* ~UART(): if (state == OPEN) close();  run by the owner once no call of
\* its own is in progress; the detached threads are not joined
Destructor ==
    /\ ~destroyed
    /\ mtx = NoThread
    /\ \A t \in Threads : pc[t] = "idle"
    /\ state' = IF state = "OPEN" THEN ClosedState ELSE state
    /\ destroyed' = TRUE
    /\ UNCHANGED <<baudRate, dataBits, parity, stopBits, commMethod, mtx,
                   dataReady, readBuffer, pc, rdLen, ret, prod,
                   rxCount, consumed>>

\* ------------------------------------------------- asyncRead / dmaRead
\* while (state == UARTState::OPEN): state is read without the mutex while
\* API calls write it (a data race), and after ~UART through a dangling
\* `this`.  The value the loop sees is the current one, the OPEN it saw
\* before, or anything once the object is gone.
ObservedState == IF destroyed THEN UARTState ELSE {state, "OPEN"}

LoopTest ==
    /\ prod["test"] > 0
    /\ \E seen \in ObservedState :
          prod' = IF seen = "OPEN" THEN Move("test", "hw")
                  ELSE [prod EXCEPT !["test"] = @ - 1]
    /\ UNCHANGED <<state, baudRate, dataBits, parity, stopBits, commMethod,
                   mtx, dataReady, readBuffer, pc, rdLen, ret, destroyed,
                   rxCount, consumed>>

\* "TODO - hardware interaction / Wait for data from hardware", as spec.md
\* 4.3 and 5 describe it: under exclusive access the receive completion
\* appends a byte to the receive buffer and raises dataReady
HardwareReceive ==
    /\ prod["hw"] > 0
    /\ ~destroyed
    /\ mtx = NoThread
    /\ rxCount < MaxBytes
    /\ rxCount' = rxCount + 1
    /\ readBuffer' = Append(readBuffer, rxCount + 1)
    /\ dataReady' = TRUE
    /\ prod' = Move("hw", "notify")
    /\ UNCHANGED <<state, baudRate, dataBits, parity, stopBits, commMethod,
                   mtx, pc, rdLen, ret, destroyed, consumed>>

\* cv.notify_one(): one suspended reader, if there is one, resumes.  The
\* source reaches it on every iteration, with or without received data.
Waiters == {t \in Threads : pc[t] = "waiting"}

NotifyOne(from) ==
    /\ from \in {"hw", "notify"}
    /\ prod[from] > 0
    /\ IF Waiters = {}
       THEN UNCHANGED pc
       ELSE \E w \in Waiters : pc' = [pc EXCEPT ![w] = "woken"]
    /\ prod' = Move(from, "test")
    /\ UNCHANGED <<state, baudRate, dataBits, parity, stopBits, commMethod,
                   mtx, dataReady, readBuffer, rdLen, ret, destroyed,
                   rxCount, consumed>>

\* one step of a receive thread, whichever of the two functions it runs
asyncRead == LoopTest \/ HardwareReceive \/ \E from \in ProdPcs : NotifyOne(from)

\* ------------------------------------------------------------------- Next
\* open can start a thread only while the model has a slot for it
CanSpawn(method) ==
    method = "POLLING" \/ state # "CONFIGURED" \/ LiveProducers < MaxProducers

\* Two concurrent callers; configure is called with main()'s arguments.
Next ==
    \/ \E t \in Threads, op \in Ops : Lock(t, op)
    \/ \E t \in Threads, a \in MainConfig : configure(t, a[1], a[2])
    \/ \E t \in Threads, method \in CommMethod :
          CanSpawn(method) /\ open(t, method)
    \/ \E t \in Threads : close(t)
    \/ \E t \in Threads, length \in 0..MaxReadLen : read(t, length)
    \/ \E t \in Threads : SpuriousWake(t)
    \/ \E t \in Threads : Reacquire(t)
    \/ \E t \in Threads : Recheck(t)
    \/ \E t \in Threads, length \in 0..MaxWriteLen : write(t, length)
    \/ Destructor
    \/ LoopTest
    \/ HardwareReceive
    \/ \E from \in ProdPcs : NotifyOne(from)

Spec == Init /\ [][Next]_vars

\* Scheduling: a thread that holds the mutex finishes its critical section,
\* a notified reader gets the mutex back, a running receive thread keeps
\* iterating.  New API calls, spurious wake-ups and hardware data are up to
\* the environment.
Fairness ==
    /\ \A t \in Threads :
          /\ WF_vars(\E a \in MainConfig : configure(t, a[1], a[2]))
          /\ WF_vars(\E method \in CommMethod : CanSpawn(method) /\ open(t, method))
          /\ WF_vars(close(t))
          /\ WF_vars(\E length \in 0..MaxReadLen : read(t, length))
          /\ WF_vars(\E length \in 0..MaxWriteLen : write(t, length))
          /\ SF_vars(Reacquire(t))
          /\ WF_vars(Recheck(t))
    /\ WF_vars(LoopTest)
    /\ WF_vars(\E from \in ProdPcs : NotifyOne(from))

FairSpec == Spec /\ Fairness

\* One caller; configure is called with every parameter, a value that names
\* no parameter, and every value of Values.
ConfigCallers == {"t1"}

ConfigNext ==
    \/ \E t \in ConfigCallers, op \in Ops : Lock(t, op)
    \/ \E t \in Threads, cfg \in ConfigArgs, value \in Values :
          configure(t, cfg, value)
    \/ \E t \in Threads, method \in CommMethod :
          CanSpawn(method) /\ open(t, method)
    \/ \E t \in Threads : close(t)
    \/ \E t \in Threads, length \in 0..MaxReadLen : read(t, length)
    \/ \E t \in Threads : SpuriousWake(t)
    \/ \E t \in Threads : Reacquire(t)
    \/ \E t \in Threads : Recheck(t)
    \/ \E t \in Threads, length \in 0..MaxWriteLen : write(t, length)
    \/ Destructor
    \/ LoopTest
    \/ HardwareReceive
    \/ \E from \in ProdPcs : NotifyOne(from)

ConfigSpec == Init /\ [][ConfigNext]_vars

TypeOK ==
    /\ state \in UARTState
    /\ commMethod \in CommMethod
    /\ mtx \in Threads \cup {NoThread}
    /\ dataReady \in BOOLEAN
    /\ destroyed \in BOOLEAN
    /\ rxCount \in 0..MaxBytes
    /\ ret.err \in Errors
    /\ ret.who \in Threads \cup {NoThread}
    /\ LiveProducers <= MaxProducers

\* =================================================================== claims

\* C1: a read that is suspended while the driver is CLOSED (close completed
\* while it was blocked) eventually returns, and returns NotOpen.
C1_BlockedReadFailsAfterClose ==
    \A t \in Threads :
        (pc[t] = "waiting" /\ state = "CLOSED")
            ~> (pc[t] = "idle" /\ ret.who = t /\ ret.op = "read"
                /\ ret.err = "NotOpen")

\* C2: every read entered on an OPEN driver eventually returns, whatever the
\* strategy and whether or not a byte ever arrives.
C2_ReadOnOpenReturns ==
    \A t \in Threads : (pc[t] = "read" /\ state = "OPEN") ~> (pc[t] = "idle")

\* C3: the concatenation of the bytes returned by the reads so far is a
\* prefix of the bytes appended by the producers, in the same order.
C3_ReadsArePrefixOfAppended ==
    /\ Len(consumed) <= rxCount
    /\ \A k \in 1..Len(consumed) : consumed[k] = appended[k]

\* every appended byte has been returned, over more than one read
C3_Witness ==
    /\ rxCount = MaxBytes
    /\ consumed = appended
    /\ ret.op = "read"
    /\ Len(ret.bytes) < Len(consumed)
    /\ commMethod \in {"INTERRUPT", "DMA"}

\* C4: configure called in state CONFIGURED succeeds and leaves the state
\* CONFIGURED (so main()'s four configure calls and its open all succeed).
C4_ReconfigureSucceeds ==
    [][\A t \in Threads, a \in MainConfig :
          (state = "CONFIGURED" /\ configure(t, a[1], a[2]))
              => (ret'.err = "None" /\ state' = "CONFIGURED")]_vars

\* C5: state becomes OPEN only from CONFIGURED and by an open that succeeds;
\* it leaves OPEN only to CLOSED, by a close that succeeds or by ~UART.
C5_OpenOnlyFromConfigured ==
    [][/\ (state # "OPEN" /\ state' = "OPEN")
            => (state = "CONFIGURED" /\ ret'.op = "open" /\ ret'.err = "None")
       /\ (state = "OPEN" /\ state' # "OPEN")
            => /\ state' = "CLOSED"
               /\ \/ ret'.op = "close" /\ ret'.err = "None"
                  \/ ~destroyed /\ destroyed']_vars

\* an open / close cycle has completed
C5_Witness ==
    /\ state = "CLOSED"
    /\ ret.op = "close"
    /\ ret.err = "None"
    /\ ~destroyed

\* C6: open succeeds exactly in state CONFIGURED; in OPEN it throws
\* AlreadyOpen, in CLOSED NotConfigured, and a failing open leaves state and
\* commMethod alone and starts no receive thread.
C6_OpenRejectedUnlessConfigured ==
    [][\A t \in Threads, method \in CommMethod :
          open(t, method)
              => /\ (ret'.err = "None") <=> (state = "CONFIGURED")
                 /\ state = "OPEN" => ret'.err = "AlreadyOpen"
                 /\ state = "CLOSED" => ret'.err = "NotConfigured"
                 /\ ret'.err # "None"
                       => UNCHANGED <<state, commMethod, prod>>]_vars

\* an open was rejected on an open driver whose receive thread is running
C6_Witness ==
    /\ state = "OPEN"
    /\ ret.op = "open"
    /\ ret.err = "AlreadyOpen"
    /\ LiveProducers > 0

\* C7: configure called in state OPEN throws InvalidState and changes
\* nothing; no step taken in state OPEN changes a configuration field.
C7_ConfigFrozenWhileOpen ==
    [][/\ state = "OPEN" => UNCHANGED config
       /\ \A t \in Threads, cfg \in ConfigArgs, value \in Values :
             (state = "OPEN" /\ configure(t, cfg, value))
                 => (ret'.err = "InvalidState" /\ state' = "OPEN")]_vars

\* a configure was rejected while OPEN, after the configuration had been
\* changed from its defaults
C7_Witness ==
    /\ state = "OPEN"
    /\ ret.op = "configure"
    /\ ret.err = "InvalidState"
    /\ baudRate # DefaultBaudRate
    /\ parity = TRUE

\* C8: close, read and write called when state is not OPEN throw NotOpen and
\* leave state, configuration, receive buffer and dataReady alone.
C8_NotOpenRejected ==
    [][\A t \in Threads :
          (/\ state # "OPEN"
           /\ \/ close(t)
              \/ \E length \in 0..MaxReadLen : read(t, length)
              \/ \E length \in 0..MaxWriteLen : write(t, length))
              => /\ ret'.who = t
                 /\ ret'.err = "NotOpen"
                 /\ UNCHANGED <<state, config, readBuffer, dataReady>>]_vars

\* a read after a close, with unread bytes still buffered, was rejected
C8_Witness ==
    /\ state = "CLOSED"
    /\ ret.op = "read"
    /\ ret.err = "NotOpen"
    /\ readBuffer # <<>>

\* C9: a read that drains returns the first k = min(length, available) bytes
\* of the receive buffer, in order, and leaves the other available - k bytes
\* in the buffer in their order; it never returns more than length bytes.
C9_DrainTakesFront ==
    [][\A t \in Threads, length \in 0..MaxReadLen :
          (/\ \/ read(t, length)
              \/ rdLen[t] = length /\ Recheck(t)
           /\ pc'[t] = "idle"
           /\ ret'.err = "None")
              => LET avail == Len(readBuffer)
                     k == IF length < avail THEN length ELSE avail
                 IN /\ ret'.n = k
                    /\ k <= length
                    /\ ret'.bytes = [j \in 1..k |-> readBuffer[j]]
                    /\ readBuffer' = [j \in 1..(avail - k) |-> readBuffer[j + k]]]_vars

\* a read took fewer bytes than were buffered: the bytes after the ones it
\* returned are still at the front of the buffer
C9_Witness ==
    /\ ret.op = "read"
    /\ ret.err = "None"
    /\ ret.n >= 1
    /\ dataReady = FALSE
    /\ readBuffer # <<>>
    /\ readBuffer[1] = ret.bytes[ret.n] + 1

\* C10: whenever nobody holds the mutex, dataReady is true exactly when the
\* receive buffer is not empty.
C10_DataReadyIffBuffered ==
    mtx = NoThread => (dataReady <=> readBuffer # <<>>)

\* C11: a close that succeeds leaves state CLOSED, dataReady false and the
\* receive buffer empty (unread bytes are discarded, so no read after a later
\* open returns them).
C11_CloseDiscardsUnread ==
    [][\A t \in Threads :
          (state = "OPEN" /\ close(t))
              => /\ state' = "CLOSED"
                 /\ dataReady' = FALSE
                 /\ readBuffer' = <<>>]_vars

\* C12: whenever no API call is in progress, exactly one receive thread is
\* alive if the driver is OPEN with strategy INTERRUPT or DMA, and none
\* otherwise.
C12_OneProducerWhileOpen ==
    (~destroyed /\ \A t \in Threads : pc[t] = "idle")
        => LiveProducers =
              IF state = "OPEN" /\ commMethod \in {"INTERRUPT", "DMA"}
              THEN 1 ELSE 0

\* C13: once close has returned with one receive thread alive (the one that
\* was running at that close), that thread eventually ends, whatever API
\* calls follow: unless the driver is destroyed first, the number of live
\* receive threads does not stay 1 for ever (it drops to 0, or a later open
\* starts another thread first).
C13_ProducerExitsAfterClose ==
    (state = "CLOSED" /\ LiveProducers = 1 /\ ~destroyed)
        ~> (LiveProducers # 1 \/ destroyed)

\* C14: once ~UART has completed, the driver is not OPEN (an open driver was
\* closed) and no receive thread of the driver is still running.
C14_NoProducerAfterDestruction ==
    destroyed => (state # "OPEN" /\ LiveProducers = 0)

\* C15: the configuration starts at the constructor's defaults (9600, 8, no
\* parity, 1); a configure that succeeds stores the value in the field it
\* names (PARITY as value # 0), leaves the other three fields alone and makes
\* the state CONFIGURED; no other step changes a field.  So every field holds
\* the last value set for it, or its default if it was never set.
C15_ConfigHoldsLastValueSet ==
    /\ config = <<DefaultBaudRate, DefaultDataBits, FALSE, DefaultStopBits>>
    /\ [][/\ \A t \in Threads, cfg \in UARTConfig, value \in Values :
                (configure(t, cfg, value) /\ ret'.err = "None")
                    => /\ state' = "CONFIGURED"
                       /\ cfg = "BAUD_RATE"
                             => config' = <<value, dataBits, parity, stopBits>>
                       /\ cfg = "DATA_BITS"
                             => config' = <<baudRate, value, parity, stopBits>>
                       /\ cfg = "PARITY"
                             => config' = <<baudRate, dataBits, value # 0, stopBits>>
                       /\ cfg = "STOP_BITS"
                             => config' = <<baudRate, dataBits, parity, value>>
          /\ config' # config
                => (ret'.op = "configure" /\ ret'.err = "None")]_vars

\* three fields set by three successful calls, the fourth still at its default
C15_Witness ==
    /\ state = "CONFIGURED"
    /\ ret.op = "configure"
    /\ ret.err = "None"
    /\ config = <<0, DefaultDataBits, TRUE, 0>>

\* C16: write called on an OPEN driver throws nothing, returns a count
\* between 0 and the length passed, and leaves state, configuration, receive
\* buffer and dataReady alone.
C16_WriteReturnsCount ==
    [][\A t \in Threads, length \in 0..MaxWriteLen :
          (state = "OPEN" /\ write(t, length))
              => /\ ret'.err = "None"
                 /\ 0 <= ret'.n
                 /\ ret'.n <= length
                 /\ UNCHANGED <<state, config, readBuffer, dataReady>>]_vars

\* C17: at every cv.notify_one() issued by a receive thread the receive
\* buffer is non-empty and dataReady is set.
C17_NotifyOnlyWithData ==
    [][(\E from \in ProdPcs : NotifyOne(from))
          => (readBuffer # <<>> /\ dataReady)]_vars

\* the thread is between taking the mutex and releasing it
InLockedSection(t) == pc[t] \in Ops \cup {"recheck"}

\* C18: a thread suspended in read (or resumed and not yet relocked) does
\* not own the mutex; the thread inside a locked section is the owner, so
\* there is never more than one; and with a reader suspended and nobody in a
\* locked section, another caller can take the mutex.
C18_SuspendedReadHoldsNoLock ==
    /\ \A t \in Threads : pc[t] \in {"waiting", "woken"} => mtx # t
    /\ \A t \in Threads : InLockedSection(t) => mtx = t
    /\ Cardinality({t \in Threads : InLockedSection(t)}) <= 1
    /\ \A t, u \in Threads :
          (/\ pc[t] = "waiting"
           /\ pc[u] = "idle"
           /\ ~destroyed
           /\ \A v \in Threads : ~InLockedSection(v))
              => ENABLED Lock(u, "close")

\* while t1 was suspended in read, t2 entered write and ran it to its end
C18_Witness ==
    /\ pc["t1"] = "waiting"
    /\ ret.who = "t2"
    /\ ret.op = "write"
    /\ ret.err = "None"
    /\ mtx = NoThread

\* C19: a read returns bytes, and the receive buffer shrinks, only by a step
\* taken with dataReady true; a reader that has been woken (by a notify or
\* spuriously) and finds dataReady false takes nothing: it stays where it
\* is or suspends again, and the buffer is left alone.
C19_WakeRechecksPredicate ==
    [][/\ \A t \in Threads :
             (pc[t] \in {"read", "recheck"} /\ pc'[t] = "idle"
              /\ ret'.op = "read" /\ ret'.err = "None")
                 => dataReady
       /\ Len(readBuffer') < Len(readBuffer) => dataReady
       /\ \A t \in Threads :
             (pc[t] = "recheck" /\ ~dataReady)
                 => /\ pc'[t] \in {"recheck", "waiting"}
                    /\ UNCHANGED <<readBuffer, consumed>>]_vars

\* a reader was woken with nothing ready and is about to test the predicate,
\* while the other reader is still suspended
C19_Witness ==
    /\ pc["t1"] = "recheck"
    /\ pc["t2"] = "waiting"
    /\ ~dataReady
    /\ state = "OPEN"

\* C20: open, close, read (also when it resumes from its wait) and write
\* leave the four configuration fields alone; a close that succeeds leaves
\* the state CLOSED, and an open called in CLOSED is rejected, so a driver
\* that was closed opens again only after a new successful configure.
C20_ConfigSurvivesOpenClose ==
    [][/\ \A t \in Threads :
             (\/ \E method \in CommMethod : open(t, method)
              \/ close(t)
              \/ \E length \in 0..MaxReadLen : read(t, length)
              \/ Recheck(t)
              \/ \E length \in 0..MaxWriteLen : write(t, length))
                 => UNCHANGED config
       /\ (ret'.op = "close" /\ ret'.err = "None" /\ ret' # ret)
             => state' = "CLOSED"
       /\ (state = "CLOSED" /\ state' # "CLOSED")
             => (ret'.op = "configure" /\ ret'.err = "None"
                 /\ state' = "CONFIGURED")]_vars

\* after an open / close cycle the configuration set before it is in place
\* and a second open has been rejected
C20_Witness ==
    /\ state = "CLOSED"
    /\ ret.op = "open"
    /\ ret.err = "NotConfigured"
    /\ baudRate # DefaultBaudRate
    /\ parity = TRUE

====
